---- MODULE Spec2Model ----
(***************************************************************************)
(* Model of base/lock.cc: class Lock (a recursion-counting wrapper around  *)
(* the platform lock LockImpl, with debug-only counters and a destructor   *)
(* that checks the depth in the debug build) and class                     *)
(* AutoUnlock (releases a recursively held Lock completely and re-acquires *)
(* it to the same depth on destruction).                                   *)
(*                                                                         *)
(* Granularity: every operation on lock_ and every access to a member of   *)
(* Lock that is separated from the next one by an operation on lock_ is a  *)
(* step of its own.  Code that touches only the calling thread's own data  *)
(* (locals, the members of its AutoUnlock, DCHECKs on locals, loop tests)  *)
(* runs in the step of the shared access that precedes it.  The member     *)
(* updates at lock.cc:53-58 and 72-78 are made under lock_ with no         *)
(* operation on lock_ between them and form one step.                      *)
(***************************************************************************)
EXTENDS Integers, FiniteSets, Sequences, TLC

\* ---- bounds of the model ------------------------------------------------
NumThreads == 2
MaxDepth == 3
MaxCalls == 4

Threads == 1..NumThreads
None == 0

VARIABLES
  debug,                    \* TRUE: the build without NDEBUG (instrumented)
  lock_,                    \* Lock::lock_, the LockImpl: [owner, holds]
  recursion_count_shadow_,  \* Lock::recursion_count_shadow_
  recursion_used_,          \* Lock::recursion_used_      (debug build only)
  acquisition_count_,       \* Lock::acquisition_count_   (debug build only)
  contention_count_,        \* Lock::contention_count_    (debug build only)
  fatal,                    \* a DCHECK has failed
  pc,                       \* per thread: the next shared access to perform
  ctx,                      \* per thread: the AutoUnlock method that is running
  temp,                     \* per thread: the local copy of recursion_count_shadow_ (temp of
                            \* GetCurrentThreadRecursionCount, final_recursion_count of ~Lock)
  ret,                      \* per thread: what its latest call returned, until its next call
  helper,                   \* per thread: its AutoUnlock object exists
  release_count_,           \* per thread: AutoUnlock::release_count_
  count,                    \* per thread: local count of AutoUnlock::AutoUnlock
  \* history variables, written but never read by the modelled code
  net,                      \* per thread: Acquire/Try calls returned minus Release calls returned
  calls,                    \* calls of Acquire, Try and AutoUnlock() started, all threads
  lastTry,                  \* per thread: outcome of lock_.Try() in its latest Acquire
  au,                       \* per thread: its latest AutoUnlock: depth when built (d), calls
                            \* of Release by the constructor (rel), of Acquire by the
                            \* destructor (acq)
  atDelete                  \* the depth of the lock when Lock::~Lock was called: {} before
                            \* the call, {d} from the call on

lockVars == <<lock_, recursion_count_shadow_, recursion_used_, acquisition_count_,
              contention_count_>>
autoVars == <<helper, release_count_, count>>
vars == <<debug, lock_, recursion_count_shadow_, recursion_used_, acquisition_count_,
          contention_count_, fatal, pc, ctx, temp, ret, helper, release_count_, count,
          net, calls, lastTry, au, atDelete>>

\* ---- LockImpl: the platform lock behind lock_ ----------------------------
\* LockImpl is declared in base/lock_impl.h; lock.cc only calls its Lock(), Try()
\* and Unlock().  It is modelled as a lock that its owner may take again: owner is
\* the owning thread (None when free), holds the number of Lock()/Try() the owner
\* has not yet undone.  lock.cc rests on this: Acquire by the holder goes on to
\* depth 2 (lock.cc:56), and GetCurrentThreadRecursionCount calls lock_.Lock()
\* (lock.cc:103) from a thread that is required to hold the lock (lock.cc:86-91).
LockImplFree == [owner |-> None, holds |-> 0]

\* LockImpl::Try() by t succeeds, and LockImpl::Lock() by t returns, in these states.
LockImplAvailable(l, t) == l.owner = None \/ l.owner = t

LockImplLock(l, t) == [owner |-> t, holds |-> l.holds + 1]

LockImplUnlock(l) ==
  IF l.holds <= 1 THEN LockImplFree ELSE [l EXCEPT !.holds = l.holds - 1]

\* What a call returned: op names the method ("Try", "Get"), val its value.
NoValue == [op |-> "none", val |-> 0]
Returned(o, v) == [op |-> o, val |-> v]

\* The history of a thread that has no AutoUnlock.
NoHelper == [d |-> 0, rel |-> 0, acq |-> 0]

\* ---- Lock ----------------------------------------------------------------
\* lock.cc:17-25: Lock::Lock(); no thread has called anything yet.
Init ==
  /\ debug \in BOOLEAN
  /\ lock_ = LockImplFree
  /\ recursion_count_shadow_ = 0
  /\ recursion_used_ = FALSE
  /\ acquisition_count_ = 0
  /\ contention_count_ = 0
  /\ fatal = FALSE
  /\ pc = [t \in Threads |-> "idle"]
  /\ ctx = [t \in Threads |-> "none"]
  /\ temp = [t \in Threads |-> 0]
  /\ ret = [t \in Threads |-> NoValue]
  /\ helper = [t \in Threads |-> FALSE]
  /\ release_count_ = [t \in Threads |-> 0]
  /\ count = [t \in Threads |-> 0]
  /\ net = [t \in Threads |-> 0]
  /\ calls = 0
  /\ lastTry = [t \in Threads |-> "none"]
  /\ au = [t \in Threads |-> NoHelper]
  /\ atDelete = {}

\* Lock::~Lock is running (lock.cc:27-40), or has returned: the Lock is destroyed.
Deleting == \E t \in Threads : pc[t] \in {"del_lock", "del_read", "del_unlock"}
Destroyed == \E t \in Threads : pc[t] = "dead"
\* Nothing runs any more: a DCHECK has failed (the process has aborted), or the
\* Lock is destroyed and no call on it is defined.
Halted == fatal \/ Destroyed

\* A thread may start a call: it is between calls and nothing has halted; while
\* the destructor runs, only a thread that still holds the lock goes on using it.
CanCall(t) ==
  /\ pc[t] = "idle" /\ ctx[t] = "none" /\ ~Halted
  /\ Deleting => net[t] >= 1
\* A thread is at shared access p of a call in progress.
At(t, p) == pc[t] = p /\ ~Halted
\* The first shared access of Lock::Acquire in this build (lock.cc:44 / lock.cc:47).
AcquireEntry == IF debug THEN "acq_try" ELSE "acq_lock"
\* The first shared access of GetCurrentThreadRecursionCount in this build
\* (lock.cc:103 / lock.cc:112).
GetEntry == IF debug THEN "get_lock" ELSE "get_ret"

\* Thread t, which has no AutoUnlock, starts a call whose first shared access is p.
StartCall(t, p) ==
  /\ CanCall(t) /\ ~helper[t]
  /\ pc' = [pc EXCEPT ![t] = p]
  /\ ret' = [ret EXCEPT ![t] = NoValue]

\* Faulty variants of Bookkeeping, against which the claims below are tried:
\* a re-entry that is not counted,
BookkeepingFlat(dbg, rc, acq, used) ==
  [rc   |-> IF rc >= 1 THEN rc ELSE rc + 1,
   acq  |-> IF dbg /\ rc = 0 THEN acq + 1 ELSE acq,
   used |-> used]
\* a latch that is set one level late,
BookkeepingLate(dbg, rc, acq, used) ==
  LET n == rc + 1 IN
  [rc   |-> n,
   acq  |-> IF dbg /\ n = 1 THEN acq + 1 ELSE acq,
   used |-> IF dbg /\ n = 3 /\ ~used THEN TRUE ELSE used]
\* and a count of every acquisition instead of every session.
BookkeepingEvery(dbg, rc, acq, used) ==
  LET n == rc + 1 IN
  [rc   |-> n,
   acq  |-> IF dbg THEN acq + 1 ELSE acq,
   used |-> IF dbg /\ n = 2 /\ ~used THEN TRUE ELSE used]

\* lock.cc:53-58 (and 72-78): the member updates made once lock_ is held.
\* In the NDEBUG build only the increment is compiled.
Bookkeeping(dbg, rc, acq, used) ==
  LET n == rc + 1 IN
  [rc   |-> n,
   acq  |-> IF dbg /\ n = 1 THEN acq + 1 ELSE acq,
   used |-> IF dbg /\ n = 2 /\ ~used THEN TRUE ELSE used]

\* A caller calls Acquire().
CallAcquire(t) ==
  /\ StartCall(t, AcquireEntry)
  /\ calls < MaxCalls /\ net[t] < MaxDepth
  /\ calls' = calls + 1
  /\ lastTry' = [lastTry EXCEPT ![t] = "none"]
  /\ au' = [au EXCEPT ![t] = NoHelper]
  /\ UNCHANGED <<debug, atDelete, lockVars, fatal, ctx, temp, autoVars, net>>

\* Faulty variant of AcqTry: the attempt fails whenever lock_ is owned, by the
\* caller too.
AcqTryStrict(t) ==
  /\ At(t, "acq_try")
  /\ IF lock_.owner = None
       THEN /\ lock_' = LockImplLock(lock_, t)
            /\ pc' = [pc EXCEPT ![t] = "acq_book"]
            /\ lastTry' = [lastTry EXCEPT ![t] = "ok"]
       ELSE /\ lock_' = lock_
            /\ pc' = [pc EXCEPT ![t] = "acq_lock"]
            /\ lastTry' = [lastTry EXCEPT ![t] = "fail"]
  /\ UNCHANGED <<debug, atDelete, recursion_count_shadow_, recursion_used_, acquisition_count_,
                 contention_count_, fatal, ctx, temp, ret, autoVars, net, calls, au>>

\* lock.cc:47: if (!lock_.Try())
AcqTry(t) ==
  /\ At(t, "acq_try")
  /\ IF LockImplAvailable(lock_, t)
       THEN /\ lock_' = LockImplLock(lock_, t)
            /\ pc' = [pc EXCEPT ![t] = "acq_book"]
            /\ lastTry' = [lastTry EXCEPT ![t] = "ok"]
       ELSE /\ lock_' = lock_
            /\ pc' = [pc EXCEPT ![t] = "acq_lock"]
            /\ lastTry' = [lastTry EXCEPT ![t] = "fail"]
  /\ UNCHANGED <<debug, atDelete, recursion_count_shadow_, recursion_used_, acquisition_count_,
                 contention_count_, fatal, ctx, temp, ret, autoVars, net, calls, au>>

\* Faulty variant of AcqLock: Acquire goes on without waiting for lock_.
AcqLockNoWait(t) ==
  /\ At(t, "acq_lock")
  /\ lock_' = LockImplLock(lock_, t)
  /\ pc' = [pc EXCEPT ![t] = IF debug THEN "acq_cont" ELSE "acq_book"]
  /\ UNCHANGED <<debug, atDelete, recursion_count_shadow_, recursion_used_, acquisition_count_,
                 contention_count_, fatal, ctx, temp, ret, autoVars, net, calls,
                 lastTry, au>>

\* lock.cc:49 (debug) and lock.cc:44 (NDEBUG): lock_.Lock(), which waits for lock_.
AcqLock(t) ==
  /\ At(t, "acq_lock")
  /\ LockImplAvailable(lock_, t)
  /\ lock_' = LockImplLock(lock_, t)
  /\ pc' = [pc EXCEPT ![t] = IF debug THEN "acq_cont" ELSE "acq_book"]
  /\ UNCHANGED <<debug, atDelete, recursion_count_shadow_, recursion_used_, acquisition_count_,
                 contention_count_, fatal, ctx, temp, ret, autoVars, net, calls,
                 lastTry, au>>

\* Faulty variant of AcqCont: the contention is not counted.
AcqContNone(t) ==
  /\ At(t, "acq_cont")
  /\ pc' = [pc EXCEPT ![t] = "acq_book"]
  /\ UNCHANGED <<debug, atDelete, lockVars, fatal, ctx, temp, ret, autoVars, net, calls, lastTry,
                 au>>

\* Faulty variant of AcqCont: the contended path also raises the depth.
AcqContBump(t) ==
  /\ At(t, "acq_cont")
  /\ contention_count_' = contention_count_ + 1
  /\ recursion_count_shadow_' = recursion_count_shadow_ + 1
  /\ pc' = [pc EXCEPT ![t] = "acq_book"]
  /\ UNCHANGED <<debug, atDelete, lock_, recursion_used_,
                 acquisition_count_, fatal, ctx, temp, ret, autoVars, net, calls,
                 lastTry, au>>

\* lock.cc:50: contention_count_++
AcqCont(t) ==
  /\ At(t, "acq_cont")
  /\ contention_count_' = contention_count_ + 1
  /\ pc' = [pc EXCEPT ![t] = "acq_book"]
  /\ UNCHANGED <<debug, atDelete, lock_, recursion_count_shadow_, recursion_used_,
                 acquisition_count_, fatal, ctx, temp, ret, autoVars, net, calls,
                 lastTry, au>>

\* Faulty variant of AcqBook: the destructor's loop stops after one Acquire.
AcqBookOnce(t) ==
  /\ At(t, "acq_book")
  /\ LET b == Bookkeeping(debug, recursion_count_shadow_, acquisition_count_,
                          recursion_used_) IN
       /\ recursion_count_shadow_' = b.rc
       /\ acquisition_count_' = b.acq
       /\ recursion_used_' = b.used
  /\ net' = [net EXCEPT ![t] = @ + 1]
  /\ pc' = [pc EXCEPT ![t] = "idle"]
  /\ IF ctx[t] = "dtor"
       THEN /\ release_count_' = [release_count_ EXCEPT ![t] = @ - 1]
            /\ ctx' = [ctx EXCEPT ![t] = "none"]
            /\ helper' = [helper EXCEPT ![t] = FALSE]
       ELSE UNCHANGED <<release_count_, ctx, helper>>
  /\ UNCHANGED <<debug, atDelete, lock_, contention_count_, fatal, temp, ret, count, calls,
                 lastTry, au>>

\* lock.cc:53-58 (debug), lock.cc:45 (NDEBUG), then the return of Acquire; when the
\* caller is ~AutoUnlock, the next test of its loop (lock.cc:129) and either the
\* next call of Acquire or the end of the destructor.
AcqBook(t) ==
  /\ At(t, "acq_book")
  /\ LET b == Bookkeeping(debug, recursion_count_shadow_, acquisition_count_,
                          recursion_used_) IN
       /\ recursion_count_shadow_' = b.rc
       /\ acquisition_count_' = b.acq
       /\ recursion_used_' = b.used
  /\ net' = [net EXCEPT ![t] = @ + 1]
  /\ IF ctx[t] = "dtor"
       THEN /\ release_count_' = [release_count_ EXCEPT ![t] = @ - 1]
            /\ IF release_count_[t] > 0
                 THEN /\ pc' = [pc EXCEPT ![t] = AcquireEntry]
                      /\ au' = [au EXCEPT ![t].acq = @ + 1]
                      /\ UNCHANGED <<ctx, helper>>
                 ELSE /\ pc' = [pc EXCEPT ![t] = "idle"]
                      /\ ctx' = [ctx EXCEPT ![t] = "none"]
                      /\ helper' = [helper EXCEPT ![t] = FALSE]
                      /\ au' = au
       ELSE /\ pc' = [pc EXCEPT ![t] = "idle"]
            /\ UNCHANGED <<release_count_, ctx, helper, au>>
  /\ UNCHANGED <<debug, atDelete, lock_, contention_count_, fatal, temp, ret, count, calls,
                 lastTry>>

\* A caller that holds the lock calls Release().
CallRelease(t) ==
  /\ StartCall(t, "rel_dec")
  /\ net[t] >= 1
  /\ au' = [au EXCEPT ![t] = NoHelper]
  /\ UNCHANGED <<debug, atDelete, lockVars, fatal, ctx, temp, autoVars, net, calls, lastTry>>

\* Faulty variant of RelDec: the decrement is left out.
RelDecNone(t) ==
  /\ At(t, "rel_dec")
  /\ pc' = [pc EXCEPT ![t] = "rel_unlock"]
  /\ UNCHANGED <<debug, atDelete, lockVars, fatal, ctx, temp, ret, autoVars, net, calls, lastTry,
                 au>>

\* lock.cc:63-66: --recursion_count_shadow_; DCHECK(0 <= recursion_count_shadow_)
RelDec(t) ==
  /\ At(t, "rel_dec")
  /\ recursion_count_shadow_' = recursion_count_shadow_ - 1
  /\ fatal' = (debug /\ ~(0 <= recursion_count_shadow_ - 1))
  /\ pc' = [pc EXCEPT ![t] = "rel_unlock"]
  /\ UNCHANGED <<debug, atDelete, lock_, recursion_used_, acquisition_count_, contention_count_,
                 ctx, temp, ret, autoVars, net, calls, lastTry, au>>

\* lock.cc:67: lock_.Unlock(), then the return of Release; when the caller is
\* AutoUnlock::AutoUnlock, the next test of its loop (lock.cc:121) and either the
\* next call of Release (lock.cc:122-123) or the end of the constructor.
RelUnlock(t) ==
  /\ At(t, "rel_unlock")
  /\ lock_' = LockImplUnlock(lock_)
  /\ net' = [net EXCEPT ![t] = @ - 1]
  /\ IF ctx[t] = "ctor"
       THEN /\ count' = [count EXCEPT ![t] = @ - 1]
            /\ IF count[t] > 0
                 THEN /\ release_count_' = [release_count_ EXCEPT ![t] = @ + 1]
                      /\ au' = [au EXCEPT ![t].rel = @ + 1]
                      /\ pc' = [pc EXCEPT ![t] = "rel_dec"]
                      /\ ctx' = ctx
                 ELSE /\ pc' = [pc EXCEPT ![t] = "idle"]
                      /\ ctx' = [ctx EXCEPT ![t] = "none"]
                      /\ UNCHANGED <<release_count_, au>>
       ELSE /\ pc' = [pc EXCEPT ![t] = "idle"]
            /\ UNCHANGED <<ctx, count, release_count_, au>>
  /\ UNCHANGED <<debug, atDelete, recursion_count_shadow_, recursion_used_, acquisition_count_,
                 contention_count_, fatal, temp, ret, helper, calls, lastTry>>

\* A caller calls Try().
CallTry(t) ==
  /\ StartCall(t, "try_try")
  /\ calls < MaxCalls /\ net[t] < MaxDepth
  /\ calls' = calls + 1
  /\ lastTry' = [lastTry EXCEPT ![t] = "none"]
  /\ au' = [au EXCEPT ![t] = NoHelper]
  /\ UNCHANGED <<debug, atDelete, lockVars, fatal, ctx, temp, autoVars, net>>

\* lock.cc:71: if (lock_.Try()); on failure lock.cc:82: return false
TryTry(t) ==
  /\ At(t, "try_try")
  /\ IF LockImplAvailable(lock_, t)
       THEN /\ lock_' = LockImplLock(lock_, t)
            /\ pc' = [pc EXCEPT ![t] = "try_book"]
            /\ ret' = ret
       ELSE /\ lock_' = lock_
            /\ pc' = [pc EXCEPT ![t] = "idle"]
            /\ ret' = [ret EXCEPT ![t] = Returned("Try", FALSE)]
  /\ UNCHANGED <<debug, atDelete, recursion_count_shadow_, recursion_used_, acquisition_count_,
                 contention_count_, fatal, ctx, temp, autoVars, net, calls, lastTry, au>>

\* Faulty variant of TryBook: a successful Try is counted as a contention.
TryBookContended(t) ==
  /\ At(t, "try_book")
  /\ LET b == Bookkeeping(debug, recursion_count_shadow_, acquisition_count_,
                          recursion_used_) IN
       /\ recursion_count_shadow_' = b.rc
       /\ acquisition_count_' = b.acq
       /\ recursion_used_' = b.used
  /\ contention_count_' = contention_count_ + 1
  /\ net' = [net EXCEPT ![t] = @ + 1]
  /\ ret' = [ret EXCEPT ![t] = Returned("Try", TRUE)]
  /\ pc' = [pc EXCEPT ![t] = "idle"]
  /\ UNCHANGED <<debug, atDelete, lock_, fatal, ctx, temp, autoVars, calls, lastTry, au>>

\* lock.cc:72-80: the member updates and return true
TryBook(t) ==
  /\ At(t, "try_book")
  /\ LET b == Bookkeeping(debug, recursion_count_shadow_, acquisition_count_,
                          recursion_used_) IN
       /\ recursion_count_shadow_' = b.rc
       /\ acquisition_count_' = b.acq
       /\ recursion_used_' = b.used
  /\ net' = [net EXCEPT ![t] = @ + 1]
  /\ ret' = [ret EXCEPT ![t] = Returned("Try", TRUE)]
  /\ pc' = [pc EXCEPT ![t] = "idle"]
  /\ UNCHANGED <<debug, atDelete, lock_, contention_count_, fatal, ctx, temp, autoVars, calls,
                 lastTry, au>>

\* A caller that holds the lock calls GetCurrentThreadRecursionCount().
CallGet(t) ==
  /\ StartCall(t, GetEntry)
  /\ net[t] >= 1
  /\ au' = [au EXCEPT ![t] = NoHelper]
  /\ UNCHANGED <<debug, atDelete, lockVars, fatal, ctx, temp, autoVars, net, calls, lastTry>>

\* lock.cc:103: lock_.Lock()
GetLock(t) ==
  /\ At(t, "get_lock")
  /\ LockImplAvailable(lock_, t)
  /\ lock_' = LockImplLock(lock_, t)
  /\ pc' = [pc EXCEPT ![t] = "get_read"]
  /\ UNCHANGED <<debug, atDelete, recursion_count_shadow_, recursion_used_, acquisition_count_,
                 contention_count_, fatal, ctx, temp, ret, autoVars, net, calls,
                 lastTry, au>>

\* lock.cc:104: int temp = recursion_count_shadow_
GetRead(t) ==
  /\ At(t, "get_read")
  /\ temp' = [temp EXCEPT ![t] = recursion_count_shadow_]
  /\ pc' = [pc EXCEPT ![t] = "get_unlock"]
  /\ UNCHANGED <<debug, atDelete, lockVars, fatal, ctx, ret, autoVars, net, calls, lastTry, au>>

\* Faulty variant of GetUnlock: lock_ is not unlocked.
GetUnlockNone(t) ==
  /\ At(t, "get_unlock")
  /\ fatal' = ~(temp[t] >= 1)
  /\ temp' = [temp EXCEPT ![t] = 0]
  /\ pc' = [pc EXCEPT ![t] = "get_ret"]
  /\ UNCHANGED <<debug, atDelete, lockVars, ctx, ret, autoVars, net, calls, lastTry, au>>

\* Faulty variant of GetUnlock: the check of temp is left out.
GetUnlockSilent(t) ==
  /\ At(t, "get_unlock")
  /\ lock_' = LockImplUnlock(lock_)
  /\ temp' = [temp EXCEPT ![t] = 0]
  /\ pc' = [pc EXCEPT ![t] = "get_ret"]
  /\ UNCHANGED <<debug, atDelete, recursion_count_shadow_, recursion_used_, acquisition_count_,
                 contention_count_, fatal, ctx, ret, autoVars, net, calls, lastTry, au>>

\* lock.cc:105-108: lock_.Unlock(); DCHECK(temp >= 1); temp is dead afterwards
GetUnlock(t) ==
  /\ At(t, "get_unlock")
  /\ lock_' = LockImplUnlock(lock_)
  /\ fatal' = ~(temp[t] >= 1)
  /\ temp' = [temp EXCEPT ![t] = 0]
  /\ pc' = [pc EXCEPT ![t] = "get_ret"]
  /\ UNCHANGED <<debug, atDelete, recursion_count_shadow_, recursion_used_, acquisition_count_,
                 contention_count_, ctx, ret, autoVars, net, calls, lastTry, au>>

\* Faulty variant of GetRet: the constructor's loop starts one short of the depth.
GetRetShort(t) ==
  /\ At(t, "get_ret")
  /\ IF ctx[t] = "ctor"
       THEN /\ count' = [count EXCEPT ![t] = recursion_count_shadow_ - 2]
            /\ fatal' = (debug /\ ~(recursion_count_shadow_ > 0))
            /\ IF recursion_count_shadow_ > 1
                 THEN /\ release_count_' = [release_count_ EXCEPT ![t] = @ + 1]
                      /\ au' = [au EXCEPT ![t].rel = @ + 1]
                      /\ pc' = [pc EXCEPT ![t] = "rel_dec"]
                      /\ ctx' = ctx
                 ELSE /\ pc' = [pc EXCEPT ![t] = "idle"]
                      /\ ctx' = [ctx EXCEPT ![t] = "none"]
                      /\ UNCHANGED <<release_count_, au>>
            /\ ret' = ret
       ELSE /\ ret' = [ret EXCEPT ![t] = Returned("Get", recursion_count_shadow_)]
            /\ pc' = [pc EXCEPT ![t] = "idle"]
            /\ UNCHANGED <<fatal, ctx, count, release_count_, au>>
  /\ UNCHANGED <<debug, atDelete, lockVars, temp, helper, net, calls, lastTry>>

\* Faulty variant of GetRet: the value returned is one less than the depth.
GetRetLess(t) ==
  /\ At(t, "get_ret")
  /\ IF ctx[t] = "ctor"
       THEN /\ count' = [count EXCEPT ![t] = recursion_count_shadow_ - 1]
            /\ fatal' = (debug /\ ~(recursion_count_shadow_ > 0))
            /\ IF recursion_count_shadow_ > 0
                 THEN /\ release_count_' = [release_count_ EXCEPT ![t] = @ + 1]
                      /\ au' = [au EXCEPT ![t].rel = @ + 1]
                      /\ pc' = [pc EXCEPT ![t] = "rel_dec"]
                      /\ ctx' = ctx
                 ELSE /\ pc' = [pc EXCEPT ![t] = "idle"]
                      /\ ctx' = [ctx EXCEPT ![t] = "none"]
                      /\ UNCHANGED <<release_count_, au>>
            /\ ret' = ret
       ELSE /\ ret' = [ret EXCEPT ![t] = Returned("Get", recursion_count_shadow_ - 1)]
            /\ pc' = [pc EXCEPT ![t] = "idle"]
            /\ UNCHANGED <<fatal, ctx, count, release_count_, au>>
  /\ UNCHANGED <<debug, atDelete, lockVars, temp, helper, net, calls, lastTry>>

\* lock.cc:112: return recursion_count_shadow_; when the caller is
\* AutoUnlock::AutoUnlock, lock.cc:119-123: count is the value returned,
\* DCHECK(count > 0), the first test of the loop and either the first call of
\* Release or the end of the constructor.
GetRet(t) ==
  /\ At(t, "get_ret")
  /\ IF ctx[t] = "ctor"
       THEN /\ count' = [count EXCEPT ![t] = recursion_count_shadow_ - 1]
            /\ fatal' = (debug /\ ~(recursion_count_shadow_ > 0))
            /\ IF recursion_count_shadow_ > 0
                 THEN /\ release_count_' = [release_count_ EXCEPT ![t] = @ + 1]
                      /\ au' = [au EXCEPT ![t].rel = @ + 1]
                      /\ pc' = [pc EXCEPT ![t] = "rel_dec"]
                      /\ ctx' = ctx
                 ELSE /\ pc' = [pc EXCEPT ![t] = "idle"]
                      /\ ctx' = [ctx EXCEPT ![t] = "none"]
                      /\ UNCHANGED <<release_count_, au>>
            /\ ret' = ret
       ELSE /\ ret' = [ret EXCEPT ![t] = Returned("Get", recursion_count_shadow_)]
            /\ pc' = [pc EXCEPT ![t] = "idle"]
            /\ UNCHANGED <<fatal, ctx, count, release_count_, au>>
  /\ UNCHANGED <<debug, atDelete, lockVars, temp, helper, net, calls, lastTry>>

\* ---- AutoUnlock ------------------------------------------------------------
\* lock.cc:116-119: a caller that holds the lock builds an AutoUnlock on it:
\* release_count_(0), then the call of GetCurrentThreadRecursionCount.
CallAutoUnlock(t) ==
  /\ StartCall(t, GetEntry)
  /\ net[t] >= 1 /\ calls < MaxCalls
  /\ helper' = [helper EXCEPT ![t] = TRUE]
  /\ release_count_' = [release_count_ EXCEPT ![t] = 0]
  /\ ctx' = [ctx EXCEPT ![t] = "ctor"]
  /\ calls' = calls + 1
  /\ lastTry' = [lastTry EXCEPT ![t] = "none"]
  /\ au' = [au EXCEPT ![t] = [d |-> recursion_count_shadow_, rel |-> 0, acq |-> 0]]
  /\ UNCHANGED <<debug, atDelete, lockVars, fatal, temp, count, net>>

\* Faulty variant of CallDtor: the loop makes one round too few.
CallDtorShort(t) ==
  /\ CanCall(t) /\ helper[t]
  /\ fatal' = (debug /\ ~(release_count_[t] >= 0))
  /\ release_count_' = [release_count_ EXCEPT ![t] = @ - 2]
  /\ IF release_count_[t] > 1
       THEN /\ pc' = [pc EXCEPT ![t] = AcquireEntry]
            /\ ctx' = [ctx EXCEPT ![t] = "dtor"]
            /\ au' = [au EXCEPT ![t].acq = @ + 1]
            /\ helper' = helper
       ELSE /\ helper' = [helper EXCEPT ![t] = FALSE]
            /\ UNCHANGED <<pc, ctx, au>>
  /\ UNCHANGED <<debug, atDelete, lockVars, temp, ret, count, net, calls, lastTry>>

\* lock.cc:127-130: the AutoUnlock of t goes out of scope:
\* DCHECK(release_count_ >= 0), the first test of the loop and either the first
\* call of Acquire or the end of the destructor.
CallDtor(t) ==
  /\ CanCall(t) /\ helper[t]
  /\ fatal' = (debug /\ ~(release_count_[t] >= 0))
  /\ release_count_' = [release_count_ EXCEPT ![t] = @ - 1]
  /\ IF release_count_[t] > 0
       THEN /\ pc' = [pc EXCEPT ![t] = AcquireEntry]
            /\ ctx' = [ctx EXCEPT ![t] = "dtor"]
            /\ au' = [au EXCEPT ![t].acq = @ + 1]
            /\ helper' = helper
       ELSE /\ helper' = [helper EXCEPT ![t] = FALSE]
            /\ UNCHANGED <<pc, ctx, au>>
  /\ UNCHANGED <<debug, atDelete, lockVars, temp, ret, count, net, calls, lastTry>>

\* ---- Lock::~Lock -----------------------------------------------------------
\* Thread t starts Lock::~Lock.  lock.cc:28-39: the body is compiled in the debug
\* build only; in the NDEBUG build the destructor returns at once.
StartDelete(t) ==
  /\ pc' = [pc EXCEPT ![t] = IF debug THEN "del_lock" ELSE "dead"]
  /\ atDelete' = {recursion_count_shadow_}
  /\ UNCHANGED <<debug, lockVars, fatal, ctx, temp, ret, autoVars, net, calls, lastTry, au>>

\* The Lock is destroyed as its contract asks: no thread holds it, none is inside
\* a call on it and no AutoUnlock refers to it.
CallDelete(t) ==
  /\ ~Halted
  /\ \A u \in Threads : pc[u] = "idle" /\ ctx[u] = "none" /\ ~helper[u] /\ net[u] = 0
  /\ StartDelete(t)

\* lock.cc:31: lock_.Lock()
DelLock(t) ==
  /\ At(t, "del_lock")
  /\ LockImplAvailable(lock_, t)
  /\ lock_' = LockImplLock(lock_, t)
  /\ pc' = [pc EXCEPT ![t] = "del_read"]
  /\ UNCHANGED <<debug, atDelete, recursion_count_shadow_, recursion_used_, acquisition_count_,
                 contention_count_, fatal, ctx, temp, ret, autoVars, net, calls,
                 lastTry, au>>

\* lock.cc:32: final_recursion_count = recursion_count_shadow_
DelRead(t) ==
  /\ At(t, "del_read")
  /\ temp' = [temp EXCEPT ![t] = recursion_count_shadow_]
  /\ pc' = [pc EXCEPT ![t] = "del_unlock"]
  /\ UNCHANGED <<debug, atDelete, lockVars, fatal, ctx, ret, autoVars, net, calls, lastTry, au>>

\* Faulty variant of DelUnlock: the check of the depth is left out.
DelUnlockSilent(t) ==
  /\ At(t, "del_unlock")
  /\ lock_' = LockImplUnlock(lock_)
  /\ temp' = [temp EXCEPT ![t] = 0]
  /\ pc' = [pc EXCEPT ![t] = "dead"]
  /\ UNCHANGED <<debug, atDelete, recursion_count_shadow_, recursion_used_, acquisition_count_,
                 contention_count_, fatal, ctx, ret, autoVars, net, calls, lastTry, au>>

\* lock.cc:33-38: lock_.Unlock(); DCHECK(0 == final_recursion_count); the
\* destructor returns and the Lock is gone.
DelUnlock(t) ==
  /\ At(t, "del_unlock")
  /\ lock_' = LockImplUnlock(lock_)
  /\ fatal' = ~(0 = temp[t])
  /\ temp' = [temp EXCEPT ![t] = 0]
  /\ pc' = [pc EXCEPT ![t] = "dead"]
  /\ UNCHANGED <<debug, atDelete, recursion_count_shadow_, recursion_used_, acquisition_count_,
                 contention_count_, ctx, ret, autoVars, net, calls, lastTry, au>>

\* ---- calls that break the contract, debug build ------------------------------
\* Faulty variant of ReleaseUnheld: the check of the count is left out.
ReleaseUnheldSilent(t) ==
  /\ CanCall(t) /\ ~helper[t]
  /\ debug /\ lock_ = LockImplFree
  /\ recursion_count_shadow_' = recursion_count_shadow_ - 1
  /\ pc' = [pc EXCEPT ![t] = "rel_unlock"]
  /\ ret' = [ret EXCEPT ![t] = NoValue]
  /\ au' = [au EXCEPT ![t] = NoHelper]
  /\ UNCHANGED <<debug, atDelete, lock_, recursion_used_, acquisition_count_, contention_count_,
                 fatal, ctx, temp, autoVars, net, calls, lastTry>>

\* lock.cc:62-66: Release() is called on a lock that no thread holds.  No thread
\* is inside lock_, so none is at an access to a member, and the call and its
\* decrement are one step: --recursion_count_shadow_;
\* DCHECK(0 <= recursion_count_shadow_).
ReleaseUnheld(t) ==
  /\ CanCall(t) /\ ~helper[t]
  /\ debug /\ lock_ = LockImplFree
  /\ recursion_count_shadow_' = recursion_count_shadow_ - 1
  /\ fatal' = (debug /\ ~(0 <= recursion_count_shadow_ - 1))
  /\ pc' = [pc EXCEPT ![t] = "rel_unlock"]
  /\ ret' = [ret EXCEPT ![t] = NoValue]
  /\ au' = [au EXCEPT ![t] = NoHelper]
  /\ UNCHANGED <<debug, atDelete, lock_, recursion_used_, acquisition_count_, contention_count_,
                 ctx, temp, autoVars, net, calls, lastTry>>

\* lock.cc:116-119: a thread that does not hold the lock builds an AutoUnlock on it.
CallAutoUnlockUnheld(t) ==
  /\ StartCall(t, GetEntry)
  /\ debug /\ net[t] = 0 /\ calls < MaxCalls
  /\ helper' = [helper EXCEPT ![t] = TRUE]
  /\ release_count_' = [release_count_ EXCEPT ![t] = 0]
  /\ ctx' = [ctx EXCEPT ![t] = "ctor"]
  /\ calls' = calls + 1
  /\ lastTry' = [lastTry EXCEPT ![t] = "none"]
  /\ au' = [au EXCEPT ![t] = [d |-> recursion_count_shadow_, rel |-> 0, acq |-> 0]]
  /\ UNCHANGED <<debug, atDelete, lockVars, fatal, temp, count, net>>

\* lock.cc:27: the Lock is destroyed while its depth is not 0.
CallDeleteHeld(t) ==
  /\ CanCall(t) /\ ~helper[t] /\ ~Deleting
  /\ debug /\ recursion_count_shadow_ # 0
  /\ StartDelete(t)

Next ==
  \E t \in Threads :
    \/ CallAcquire(t) \/ AcqTry(t) \/ AcqLock(t) \/ AcqCont(t) \/ AcqBook(t)
    \/ CallRelease(t) \/ RelDec(t) \/ RelUnlock(t)
    \/ CallTry(t) \/ TryTry(t) \/ TryBook(t)
    \/ CallGet(t) \/ GetLock(t) \/ GetRead(t) \/ GetUnlock(t) \/ GetRet(t)
    \/ CallAutoUnlock(t) \/ CallDtor(t)
    \/ CallDelete(t) \/ DelLock(t) \/ DelRead(t) \/ DelUnlock(t)

Spec == Init /\ [][Next]_vars

\* The callers may also break the contract of Lock and AutoUnlock.
NextMisuse ==
  \/ Next
  \/ \E t \in Threads :
       ReleaseUnheld(t) \/ CallAutoUnlockUnheld(t) \/ CallDeleteHeld(t)

SpecMisuse == Init /\ [][NextMisuse]_vars

\* A step of thread t inside a call it has started.
ThreadStep(t) ==
  \/ AcqTry(t) \/ AcqLock(t) \/ AcqCont(t) \/ AcqBook(t)
  \/ RelDec(t) \/ RelUnlock(t)
  \/ TryTry(t) \/ TryBook(t)
  \/ GetLock(t) \/ GetRead(t) \/ GetUnlock(t) \/ GetRet(t)
  \/ DelLock(t) \/ DelRead(t) \/ DelUnlock(t)

\* Fair scheduling: a thread inside a call that can take its next step does take
\* it (a thread waiting in lock_.Lock() goes on once lock_ stays available), and a
\* thread that holds the lock does call Release in the end.
FairSpec ==
  /\ Spec
  /\ \A t \in Threads : WF_vars(ThreadStep(t)) /\ SF_vars(CallRelease(t))

\* ==== Properties =============================================================
\* Thread t holds the lock: an Acquire or Try of t has returned and the matching
\* Release has not.
Holds(t) == net[t] >= 1
\* Thread t is inside Acquire and has not yet got lock_.
WaitingInAcquire(t) == pc[t] \in {"acq_try", "acq_lock"}
\* Thread t is inside Acquire.
InAcquire(t) == pc[t] \in {"acq_try", "acq_lock", "acq_cont", "acq_book"}

\* C1: mutual exclusion: in every reachable state at most one thread holds the
\* lock, that is, is between the return of a successful Acquire or Try and the
\* return of its matching last Release.
C1_MutualExclusion == Cardinality({t \in Threads : Holds(t)}) <= 1

\* C1's case: one thread holds the lock while another is inside Acquire, waiting.
C1_Witness ==
  \E t, u \in Threads : t # u /\ Holds(t) /\ pc[u] = "acq_lock"

\* A thread that holds the lock and calls Acquire or Try again is not made to wait:
\* lock_ is available to it.
C2_HolderNeverWaits ==
  \A t \in Threads :
    Holds(t) /\ pc[t] \in {"acq_try", "acq_lock", "try_try"} => LockImplAvailable(lock_, t)
\* Between calls, the depth of the holder is the number of its outstanding calls,
\* and so is the number of times it owns lock_.
C2_DepthIsK ==
  \A t \in Threads :
    Holds(t) /\ pc[t] = "idle" =>
      /\ recursion_count_shadow_ = net[t]
      /\ lock_ = [owner |-> t, holds |-> net[t]]
\* The step in which the last outstanding Release of a thread returns leaves the
\* count at 0 and lock_ free for every thread.
C2_LastReleaseFrees ==
  \A t \in Threads :
    net[t] = 1 /\ net'[t] = 0 =>
      /\ recursion_count_shadow_' = 0
      /\ lock_' = LockImplFree
      /\ \A u \in Threads : LockImplAvailable(lock_', u)

C4_Original == (recursion_count_shadow_ = 0) <=> (lock_.owner = None)

\* Some thread is between an operation on lock_ and the update of the count that
\* goes with it: lock_ taken and the count not yet incremented (Acquire, Try), or
\* the count decremented and lock_ not yet released (Release).
BetweenLockAndCount ==
  \E t \in Threads : pc[t] \in {"acq_cont", "acq_book", "try_book", "rel_unlock"}

\* ~Lock is between its lock_.Lock() and its lock_.Unlock() (lock.cc:31-33).
DeleteHoldsLock == \E t \in Threads : pc[t] \in {"del_read", "del_unlock"}

\* C4 amended: a count of 1 or more implies that lock_ is held, in every state;
\* the converse, and so the equivalence, holds in the states where no thread is
\* between the operation on lock_ and the update of the count, nor inside the
\* critical section of ~Lock.
C4_CountZeroIffFree ==
  /\ recursion_count_shadow_ >= 1 => lock_.owner # None
  /\ (~BetweenLockAndCount /\ ~DeleteHoldsLock) =>
       ((recursion_count_shadow_ = 0) <=> (lock_.owner = None))

\* C4's case: lock_ is held and the count is still 0 (inside Acquire), and the
\* equivalence at work outside the windows is shown by C2's witness.
C4_Witness ==
  \E t \in Threads :
    pc[t] = "acq_book" /\ lock_.owner = t /\ recursion_count_shadow_ = 0

\* C5: in the instrumented build recursion_used_ is false until the first step
\* that brings the depth to 2, becomes true in that step, and stays true in every
\* later step: after each step it is true iff it was true before or the depth
\* is now 2.
C5_RecursionUsedLatch ==
  [][debug => (recursion_used_' = (recursion_used_ \/ recursion_count_shadow_' = 2))]_vars

\* C5's case: the latch is set, the lock has since gone back to depth 0 and
\* another thread has taken it.
C5_Witness ==
  \E t, u \in Threads :
    /\ t # u /\ recursion_used_ /\ recursion_count_shadow_ = 1
    /\ Holds(u) /\ au[t].d = 0 /\ lastTry[t] # "none" /\ calls >= 3

\* C6: in the instrumented build every step adds to acquisition_count_ exactly 1
\* when it takes the depth from 0 to 1 and 0 otherwise (re-entries, Release,
\* failed Try).
C6_AcquisitionCount ==
  [][debug =>
       acquisition_count_' = acquisition_count_ +
         (IF recursion_count_shadow_ = 0 /\ recursion_count_shadow_' = 1 THEN 1 ELSE 0)]_vars

\* C6's case: two sessions, the second of them recursive.
C6_Witness ==
  debug /\ acquisition_count_ = 2 /\ recursion_count_shadow_ = 3
\* The two-thread case of C7, in the instrumented build: u and v are the only
\* threads that have called anything, each has called Acquire once (and may since
\* have called Release), and each has made its non-blocking attempt.
TwoAcquires(u, v) ==
  /\ debug /\ u # v /\ calls = 2
  /\ lastTry[u] # "none" /\ lastTry[v] # "none"
\* Thread t has returned from its Acquire.
ReturnedFromAcquire(t) == ~InAcquire(t)
\* Thread t has released the lock it took.
HasReleased(t) ==
  net[t] = 0 /\ pc[t] \in {"idle", "del_lock", "del_read", "del_unlock", "dead"}

\* C7 as stated: with two threads calling Acquire on one free lock, in every
\* interleaving exactly one of them acquires on its first attempt, and once both
\* calls have returned contention_count_ has been incremented exactly once.
C7_Original ==
  \A u, v \in Threads :
    TwoAcquires(u, v) =>
      /\ (lastTry[u] = "ok") # (lastTry[v] = "ok")
      /\ ReturnedFromAcquire(u) /\ ReturnedFromAcquire(v) => contention_count_ = 1

\* C7 amended: at least one of the two acquires on its first attempt, and exactly
\* one when the other's attempt is made while the first holds lock_ (when the
\* first has released before the second attempts, both succeed at once and
\* contention_count_ stays 0); a thread whose attempt failed does not return
\* before the other has released; contention_count_ is the number of threads
\* whose attempt failed and that have since got lock_, so it is incremented once
\* by such a thread and never by a thread whose attempt succeeded.
C7_Contention ==
  \A u, v \in Threads :
    TwoAcquires(u, v) =>
      /\ lastTry[u] = "ok" \/ lastTry[v] = "ok"
      /\ lastTry[u] = "fail" /\ ReturnedFromAcquire(u) => HasReleased(v)
      /\ contention_count_ =
           Cardinality({w \in {u, v} : lastTry[w] = "fail" /\ pc[w] \notin {"acq_lock", "acq_cont"}})

\* C7's case: the attempt of u failed while v held the lock, v released, u got the
\* lock and returned, and the contention was counted once.
C7_Witness ==
  \E u, v \in Threads :
    /\ TwoAcquires(u, v) /\ lastTry[u] = "fail" /\ lastTry[v] = "ok"
    /\ pc[u] = "idle" /\ Holds(u) /\ HasReleased(v) /\ contention_count_ = 1

\* The constructor of t's AutoUnlock returns in this step.
CtorReturns(t) == ctx[t] = "ctor" /\ ctx'[t] = "none"
\* The destructor of t's AutoUnlock returns in this step.
DtorReturns(t) == helper[t] /\ ctx[t] \in {"none", "dtor"} /\ ~helper'[t]
\* The AutoUnlock of t is built and its destructor has not been called.
HelperAlive(t) == helper[t] /\ ctx[t] = "none"
\* The AutoUnlock of t has been destroyed and t has called nothing since.
HelperDestroyed(t) == ~helper[t] /\ pc[t] = "idle" /\ au[t].d >= 1

Restored(t) ==
  /\ HelperDestroyed(t)
  /\ au[t].acq = au[t].d
  /\ net[t] = au[t].d
  /\ recursion_count_shadow_ = au[t].d
  /\ lock_ = [owner |-> t, holds |-> au[t].d]

\* While another thread holds lock_, a destructor in progress has got nothing back
\* and is waiting in its first Acquire.
C10_WaitsForHolder ==
  \A t, u \in Threads :
    t # u /\ ctx[t] = "dtor" /\ lock_.owner = u =>
      /\ net[t] = 0 /\ WaitingInAcquire(t)
      /\ au[t].acq = 1
\* In the step in which a destructor returns no other thread holds the lock.
C10_ReturnsAlone ==
  \A t \in Threads :
    DtorReturns(t) => \A u \in Threads \ {t} : ~Holds(u) /\ ~Holds(u)'

GetPcs == {"get_lock", "get_read", "get_unlock", "get_ret"}
InGet(t) == pc[t] \in GetPcs
\* The next step of GetCurrentThreadRecursionCount by t can be taken.
GetCanStep(t) == ENABLED (GetLock(t) \/ GetRead(t) \/ GetUnlock(t) \/ GetRet(t))

C13_TryFrame ==
  /\ [](\A t \in Threads : At(t, "try_try") => ENABLED TryTry(t))
  /\ [][\A t \in Threads :
          /\ (pc[t] = "try_try" /\ pc'[t] = "idle") =>
               /\ ret'[t] = Returned("Try", FALSE)
               /\ lock_.owner \notin {None, t}
               /\ UNCHANGED lockVars
               /\ net'[t] = net[t]
          /\ (pc[t] = "try_try" /\ pc'[t] = "try_book") =>
               /\ lock_' = LockImplLock(lock_, t)
               /\ recursion_count_shadow_' = recursion_count_shadow_
               /\ contention_count_' = contention_count_
          /\ (pc[t] = "try_book" /\ pc'[t] = "idle") =>
               /\ ret'[t] = Returned("Try", TRUE)
               /\ recursion_count_shadow_' = recursion_count_shadow_ + 1
               /\ contention_count_' = contention_count_
               /\ lock_' = lock_
          /\ (pc[t] = "try_try" /\ pc'[t] # pc[t]) => pc'[t] \in {"idle", "try_book"}
          /\ (pc[t] = "try_book" /\ pc'[t] # pc[t]) => pc'[t] = "idle"]_vars

\* A Try has failed because another thread holds the lock, and a Try of the
\* holder has succeeded at depth 1.
C13_Witness ==
  \E t, u \in Threads :
    /\ t # u /\ debug
    /\ pc[t] = "idle" /\ ret[t] = Returned("Try", FALSE)
    /\ pc[u] = "idle" /\ ret[u] = Returned("Try", TRUE) /\ net[u] = 2

C15_Original ==
  \A t \in Threads :
    (debug /\ pc[t] = "dead") => (fatal <=> atDelete # {0})

\* Thread t builds an AutoUnlock on a lock it does not hold.
Unheld(t) == ctx[t] = "ctor" /\ net[t] = 0

\* C16: in the debug build AutoUnlock::AutoUnlock by a thread that does not hold
\* the lock never calls Release and fails a DCHECK, the one of
\* GetCurrentThreadRecursionCount (lock.cc:108), before it reaches its own
\* (lock.cc:120); no step of AutoUnlock::AutoUnlock by the holder at depth 1 or
\* more fails a DCHECK.
C16_AutoUnlockAssert ==
  /\ [](\A t \in Threads :
          (debug /\ Unheld(t)) =>
            /\ pc[t] \in GetPcs
            /\ au[t].rel = 0 /\ release_count_[t] = 0
            /\ pc[t] = "get_ret" => fatal)
  /\ [][\A t \in Threads :
          (ctx[t] = "ctor" /\ net[t] >= 1 /\ pc'[t] # pc[t]) => ~fatal']_vars

\* An AutoUnlock built at depth 0 has failed the DCHECK.
C16_Witness ==
  \E t \in Threads :
    debug /\ Unheld(t) /\ au[t].d = 0 /\ pc[t] = "get_ret" /\ fatal

\* ---- accesses to the members -----------------------------------------------------
\* The positions whose step reads or writes recursion_count_shadow_,
\* acquisition_count_, contention_count_ or recursion_used_.
AccessPcs == {"acq_cont", "acq_book", "rel_dec", "try_book", "get_read", "get_ret",
              "del_read"}

Pending == {t \in Threads : pc[t] \in {"acq_lock", "acq_cont"}}

Stage(p) == CASE p = "acq_try" -> "acq_lock" [] p = "acq_cont" -> "acq_book" [] OTHER -> p
LockOpPcs == {"idle", "acq_lock", "acq_book", "rel_dec", "rel_unlock", "try_try",
              "try_book"}

\* What a step of Acquire, Release or Try by t is in the NDEBUG build: the call,
\* one operation on lock_, or one increment or decrement.
NdebugStep(t) ==
  LET p == Stage(pc[t])
      q == Stage(pc'[t]) IN
  \/ /\ p = "idle" /\ q \in {"acq_lock", "rel_dec", "try_try"}
     /\ lock_' = lock_ /\ recursion_count_shadow_' = recursion_count_shadow_
  \/ /\ p = "acq_lock" /\ q = "acq_book"
     /\ LockImplAvailable(lock_, t) /\ lock_' = LockImplLock(lock_, t)
     /\ recursion_count_shadow_' = recursion_count_shadow_
  \/ /\ p = "acq_book" /\ q = "idle"
     /\ lock_' = lock_ /\ recursion_count_shadow_' = recursion_count_shadow_ + 1
  \/ /\ p = "rel_dec" /\ q = "rel_unlock"
     /\ lock_' = lock_ /\ recursion_count_shadow_' = recursion_count_shadow_ - 1
  \/ /\ p = "rel_unlock" /\ q = "idle"
     /\ lock_' = LockImplUnlock(lock_)
     /\ recursion_count_shadow_' = recursion_count_shadow_
  \/ /\ p = "try_try" /\ q = "try_book"
     /\ LockImplAvailable(lock_, t) /\ lock_' = LockImplLock(lock_, t)
     /\ recursion_count_shadow_' = recursion_count_shadow_
  \/ /\ p = "try_try" /\ q = "idle"
     /\ ~LockImplAvailable(lock_, t) /\ ret'[t] = Returned("Try", FALSE)
     /\ lock_' = lock_ /\ recursion_count_shadow_' = recursion_count_shadow_
  \/ /\ p = "try_book" /\ q = "idle"
     /\ ret'[t] = Returned("Try", TRUE)
     /\ lock_' = lock_ /\ recursion_count_shadow_' = recursion_count_shadow_ + 1

\* A step that the NDEBUG build does not have and that changes nothing it has.
DebugOnlyStep(t) ==
  /\ debug
  /\ Stage(pc'[t]) = Stage(pc[t])
  /\ lock_' = lock_ /\ recursion_count_shadow_' = recursion_count_shadow_
  /\ ret'[t] = ret[t] /\ net'[t] = net[t]

\* C19: the two builds do the same to recursion_count_shadow_, to lock_ and to
\* the result of Try.  Every step of Acquire, Release or Try, in either build, is
\* a step of the NDEBUG code (lock.cc:44-45, 63-67, 71-83: one operation on lock_
\* or one increment or decrement) from the position it stands for, or, in the
\* debug build, a step that leaves all of these unchanged; and a thread that
\* wants lock_ can go on in the debug build exactly when it can in the NDEBUG
\* build.
C19_SameBehaviour ==
  /\ [][\A t \in Threads :
          (/\ pc'[t] # pc[t]
           /\ ctx[t] = "none" /\ ctx'[t] = "none"
           /\ Stage(pc[t]) \in LockOpPcs /\ Stage(pc'[t]) \in LockOpPcs) =>
            (NdebugStep(t) \/ DebugOnlyStep(t))]_vars
  /\ [](\A t \in Threads :
          (Stage(pc[t]) = "acq_lock" /\ ~Halted) =>
            /\ LockImplAvailable(lock_, t) => ENABLED (AcqTry(t) \/ AcqLock(t))
            /\ (pc[t] = "acq_lock" /\ ~LockImplAvailable(lock_, t)) => ~ENABLED AcqLock(t))

\* The debug build has taken the contended path of Acquire and holds the lock
\* at depth 1.
C19_Witness ==
  \E t \in Threads :
    /\ debug /\ pc[t] = "idle" /\ lastTry[t] = "fail"
    /\ net[t] = 1 /\ recursion_count_shadow_ = 1 /\ lock_ = [owner |-> t, holds |-> 1]

====
